---------------------------- MODULE Spec2Model ----------------------------
(***************************************************************************)
(* A model of layout_generator.py: parse_stackup, build_stackup,           *)
(* add_differential_pair (with its inner create_trace) and main, run       *)
(* against an abstract Edb handle (material registry, stackup, modeler).   *)
(*                                                                         *)
(* CSV cells are sequences of one-character strings, so that Python's      *)
(* truthiness test and float() act on the text of a cell.  Lengths of the  *)
(* trace geometry are integers counting half grid steps, which makes       *)
(* (w + gap) / 2.0 exact.                                                  *)
(***************************************************************************)
EXTENDS Integers, Sequences, FiniteSets, TLC

\* ------------------------------------------------------------- bounds
\* Longest CSV (data rows) the model reads.
MaxRows == 3
\* Largest --intra_count the trace specification draws.
MaxCount == 2
\* Largest magnitude of --width, --gap and --intra_height, in grid steps.
MaxLen == 2

\* ------------------------------------------------------------- values
\* csv.DictReader's restval: the cell of a column the row is too short for.
None == <<"None">>

Digits == {"0", "1", "2", "3", "4", "5", "6", "7", "8", "9"}

DigitVal(c) ==
    CASE c = "0" -> 0 [] c = "1" -> 1 [] c = "2" -> 2 [] c = "3" -> 3
      [] c = "4" -> 4 [] c = "5" -> 5 [] c = "6" -> 6 [] c = "7" -> 7
      [] c = "8" -> 8 [] c = "9" -> 9
      [] OTHER -> 0

\* A presence test in place of the truthiness test: only None is false.
TruthyNotNone(v) == v # None

\* Python truthiness of a cell: None and the empty string are false.
Truthy(v) == v # None /\ Len(v) > 0

RECURSIVE LStrip(_)
LStrip(s) == IF Len(s) > 0 /\ Head(s) = " " THEN LStrip(Tail(s)) ELSE s

RECURSIVE RStrip(_)
RStrip(s) ==
    IF Len(s) > 0 /\ s[Len(s)] = " " THEN RStrip(SubSeq(s, 1, Len(s) - 1)) ELSE s

\* The text float() reads: surrounding whitespace and one leading sign removed.
Unsigned(s) ==
    LET t == RStrip(LStrip(s))
    IN  IF Len(t) > 0 /\ Head(t) \in {"+", "-"} THEN Tail(t) ELSE t

Negative(s) ==
    LET t == RStrip(LStrip(s)) IN Len(t) > 0 /\ Head(t) = "-"

\* float(v) succeeds: v is a string holding a decimal literal (digits with at
\* most one point and at least one digit).  Exponents, underscores, inf and
\* nan, which float() also reads, do not occur in the cells drawn here.
FloatOK(v) ==
    /\ v # None
    /\ LET b == Unsigned(v)
           dots == {i \in 1..Len(b) : b[i] = "."}
       IN  /\ \A i \in 1..Len(b) : b[i] \in Digits \cup {"."}
           /\ Cardinality(dots) <= 1
           /\ \E i \in 1..Len(b) : b[i] \in Digits

RECURSIVE DigitsVal(_)
DigitsVal(s) ==
    IF Len(s) = 0 THEN 0
    ELSE 10 * DigitsVal(SubSeq(s, 1, Len(s) - 1)) + DigitVal(s[Len(s)])

\* The value float(v) returns, counted in thousandths (three decimals kept).
FloatVal(v) ==
    LET b == Unsigned(v)
        dot == IF \E i \in 1..Len(b) : b[i] = "."
               THEN CHOOSE i \in 1..Len(b) : b[i] = "." ELSE Len(b) + 1
        ip == SubSeq(b, 1, dot - 1)
        fp == SubSeq(b \o <<"0", "0", "0">>, dot + 1, dot + 3)
        m == 1000 * DigitsVal(ip) + DigitsVal(IF dot > Len(b) THEN <<>> ELSE fp)
    IN  IF Negative(v) THEN 0 - m ELSE m

\* The exception float(v) raises when it fails.
FloatError(v) == IF v = None THEN "TypeError" ELSE "ValueError"


\* ------------------------------------------------------------- inputs
\* One CSV data row as csv.DictReader yields it: column name -> cell.
Row(name, type, material, thickness, eps, mu, sigma, dloss, mloss) ==
    [name |-> name, type |-> type, material |-> material,
     thickness |-> thickness, permittivity |-> eps, permeability |-> mu,
     conductivity |-> sigma, dielectric_loss |-> dloss, magnetic_loss |-> mloss]

Materials == {"copper", "FR4", "prepreg"}

\* The rows the CSV is made of: well-formed rows (two of them sharing a
\* material), rows without a layer name, and rows with a cell float() rejects.
SampleRows ==
    { Row(<<"L", "1">>, "signal", "copper", <<"3", "5">>,
          <<"1">>, <<"1">>, <<"5", "8">>, <<"0">>, <<"0">>),
      Row(<<"L", "2">>, "dielectric", "FR4", <<"1", "0", "0">>,
          <<"4", ".", "4">>, <<"1">>, <<"0">>, <<".", "0", "2">>, <<"0">>),
      Row(<<"L", "3">>, "signal", "copper", <<"1", "7", ".", "5">>,
          <<"1">>, <<"1">>, <<"5", "8">>, <<"0">>, <<"0">>),
      Row(<<>>, "signal", "copper", <<"x">>,
          <<"1">>, <<"1">>, <<"5", "8">>, <<"0">>, <<"0">>),
      Row(None, "", "", None, None, None, None, None, None),
      Row(<<"L", "4">>, "signal", "copper", <<"x">>,
          <<"1">>, <<"1">>, <<"5", "8">>, <<"0">>, <<"0">>),
      Row(<<"L", "5">>, "dielectric", "prepreg", <<" ", "5", "0">>,
          <<"x">>, <<"1">>, <<"0">>, <<"0">>, <<"0">>),
      Row(<<"L", "6">>, "dielectric", "FR4", <<"7", ".">>,
          <<"4", ".", "4">>, <<"1">>, <<"0">>, <<"0">>, <<>>) }

RECURSIVE SeqsUpTo(_, _)
SeqsUpTo(S, n) ==
    IF n = 0 THEN {<<>>}
    ELSE LET shorter == SeqsUpTo(S, n - 1)
         IN  shorter \cup {Append(q, e) : q \in {r \in shorter : Len(r) = n - 1}, e \in S}

\* Command-line values, in grid steps: --width, --gap, --intra_height, --intra_count.
Args(w, g, h, n) == [width |-> w, gap |-> g, intra_height |-> h, intra_count |-> n]

\* main is run with one geometry: a unit-height meander repeated once.
MainArgs == {Args(2, 1, 1, 1)}

\* The trace generator is run over every small geometry, negative lengths and
\* counts included (argparse accepts them).
TraceArgs ==
    {Args(w, g, h, n) : w \in 0..MaxLen, g \in (0 - 1)..MaxLen,
                        h \in (0 - 1)..MaxLen, n \in (0 - 1)..MaxCount}

\* -------------------------------------------------------------- state
VARIABLES
    csv_ok,         \* open(csv_path) succeeds
    rows,           \* the data rows of the CSV file
    Edb,            \* the module-level name Edb is the class (TRUE) or None
    args,           \* the parsed command line
    pc,             \* where main is
    err,            \* the exception propagating, or "none"
    row_i,          \* rows parse_stackup has consumed
    stack,          \* parse_stackup's list
    layer_i,        \* records build_stackup has finished
    opened,         \* times the database was opened
    closed,         \* times the handle's scope exit ran
    initial_keys,   \* edb.materials.material_keys when the database opened
    material_keys,  \* edb.materials.material_keys
    layers,         \* edb.stackup, in append order
    traces,         \* the modeler's traces, in creation order
    pos_pts,        \* add_differential_pair's pos_pts
    neg_pts,        \* add_differential_pair's neg_pts
    calls           \* every call made on the handle, in order, with its outcome

vars == <<csv_ok, rows, Edb, args, pc, err, row_i, stack, layer_i, opened, closed,
          initial_keys, material_keys, layers, traces, pos_pts, neg_pts, calls>>

inputs == <<csv_ok, rows, Edb, args>>
parser == <<row_i, stack>>
handle == <<opened, closed, initial_keys, material_keys, layers, traces, calls>>
points == <<pos_pts, neg_pts>>

Call(op, ok, mat, rec) == [op |-> op, ok |-> ok, mat |-> mat, rec |-> rec]

Fresh ==
    /\ err = "none"
    /\ row_i = 0 /\ stack = <<>> /\ layer_i = 0
    /\ opened = 0 /\ closed = 0
    /\ initial_keys = {} /\ material_keys = {}
    /\ layers = <<>> /\ traces = <<>>
    /\ pos_pts = <<>> /\ neg_pts = <<>>
    /\ calls = <<>>

Init ==
    /\ \/ csv_ok = TRUE /\ rows \in SeqsUpTo(SampleRows, MaxRows)
       \/ csv_ok = FALSE /\ rows = <<>>
    /\ Edb \in BOOLEAN
    /\ args \in MainArgs
    /\ pc = "main"
    /\ Fresh

\* ------------------------------------------------------ control flow
\* The body with the two builders exchanged.
StageAfterSwapped(stage) ==
    CASE stage = "open" -> "add_differential_pair"
      [] stage = "add_differential_pair" -> "build_stackup"
      [] stage = "build_stackup" -> "save"
      [] stage = "save" -> "exit"

\* The body of main's with statement, in order.
StageAfter(stage) ==
    CASE stage = "open" -> "build_stackup"
      [] stage = "build_stackup" -> "add_differential_pair"
      [] stage = "add_differential_pair" -> "save"
      [] stage = "save" -> "exit"

\* An exception leaves a function that has no handler; outside the with
\* statement it ends main.
Raise(e) == pc' = "failed" /\ err' = e

\* The handle used without a with statement: an exception skips the close.
RaiseSkippingExit(e) == pc' = "failed" /\ err' = e

\* An exception inside the with statement's body: the handle's __exit__ runs
\* before it propagates.
RaiseInScope(e) == pc' = "exit" /\ err' = e

\* ---------------------------------------------------- parse_stackup
\* The thickness stored as read, without float().
ThicknessUnchecked(row) == TRUE

\* float(row['Thickness (um)']) succeeds.
ThicknessOK(row) == FloatOK(row.thickness)

\* The record parse_stackup appends: the row with thickness_mm added.  The
\* factor 1e-3 turns thousandths of a micrometre into millionths of a
\* millimetre, so the count is unchanged.
Record(row) ==
    [f \in DOMAIN row \cup {"thickness_mm"} |->
        IF f = "thickness_mm" THEN FloatVal(row.thickness) ELSE row[f]]

open_csv ==
    /\ pc = "main"
    /\ IF csv_ok
       THEN pc' = "parse_stackup" /\ err' = err
       ELSE Raise("FileNotFoundError")
    /\ UNCHANGED <<inputs, parser, layer_i, handle, points>>

\* One turn of the loop over the reader.
parse_row ==
    /\ pc = "parse_stackup"
    /\ row_i < Len(rows)
    /\ LET row == rows[row_i + 1]
       IN  IF ~Truthy(row.name)
           THEN /\ row_i' = row_i + 1
                /\ UNCHANGED <<stack, pc, err>>
           ELSE IF ThicknessOK(row)
           THEN /\ row_i' = row_i + 1
                /\ stack' = Append(stack, Record(row))
                /\ UNCHANGED <<pc, err>>
           ELSE /\ Raise(FloatError(row.thickness))
                /\ UNCHANGED <<row_i, stack>>
    /\ UNCHANGED <<inputs, layer_i, handle, points>>

parse_return ==
    /\ pc = "parse_stackup"
    /\ row_i = Len(rows)
    /\ pc' = "check_Edb"
    /\ UNCHANGED <<inputs, err, parser, layer_i, handle, points>>

\* ------------------------------------------------------------- main
\* main without its availability test.
check_Edb_missing ==
    /\ pc = "check_Edb"
    /\ pc' = "open" /\ err' = err
    /\ UNCHANGED <<inputs, parser, layer_i, handle, points>>

\* if not Edb: raise RuntimeError(...)
check_Edb ==
    /\ pc = "check_Edb"
    /\ IF ~Edb THEN Raise("RuntimeError") ELSE pc' = "open" /\ err' = err
    /\ UNCHANGED <<inputs, parser, layer_i, handle, points>>

\* Edb(args.output, edbversion=..., new=True) and __enter__.  Calling None
\* raises TypeError; the library may refuse to create the database; a new
\* database may come with materials of its own.
open_Edb ==
    /\ pc = "open"
    /\ IF ~Edb
       THEN Raise("TypeError") /\ UNCHANGED handle
       ELSE \/ /\ Raise("LibError")
               /\ UNCHANGED handle
            \/ /\ opened' = opened + 1
               /\ \E keys \in SUBSET Materials :
                     initial_keys' = keys /\ material_keys' = keys
               /\ pc' = StageAfter("open")
               /\ UNCHANGED <<err, closed, layers, traces, calls>>
    /\ UNCHANGED <<inputs, parser, layer_i, points>>

edb_save ==
    /\ pc = "save"
    /\ \/ /\ calls' = Append(calls, Call("save", TRUE, "", 0))
          /\ pc' = StageAfter("save")
          /\ err' = err
       \/ /\ calls' = Append(calls, Call("save", FALSE, "", 0))
          /\ RaiseInScope("LibError")
    /\ UNCHANGED <<inputs, parser, layer_i, opened, closed, initial_keys,
                   material_keys, layers, traces, points>>

\* The with statement's exit: __exit__ runs, then the exception, if any,
\* propagates out of main.
edb_exit ==
    /\ pc = "exit"
    /\ closed' = closed + 1
    /\ calls' = Append(calls, Call("close", TRUE, "", 0))
    /\ pc' = IF err = "none" THEN "done" ELSE "failed"
    /\ UNCHANGED <<inputs, err, parser, layer_i, opened, initial_keys,
                   material_keys, layers, traces, points>>

\* ---------------------------------------------------- build_stackup
\* The guard without its membership test.
NeedsMaterialAlways(mat, keys) == Edb

\* The test guarding add_material: the library is there and the name is new.
NeedsMaterial(mat, keys) == Edb /\ mat \notin keys

\* The five properties add_material is given, in the order float() reads them.
Properties(layer) ==
    <<layer.permittivity, layer.permeability, layer.conductivity,
      layer.dielectric_loss, layer.magnetic_loss>>

\* The first property float() rejects, or 0.
FirstBad(layer) ==
    LET p == Properties(layer)
        bad == {i \in 1..Len(p) : ~FloatOK(p[i])}
    IN  IF bad = {} THEN 0 ELSE CHOOSE i \in bad : \A j \in bad : i <= j

\* The arguments with the thickness left in micrometres.
LayerArgsMicrons(layer) ==
    [name |-> layer.name, layer_type |-> layer.type, material |-> layer.material,
     thickness |-> [value |-> 1000 * layer.thickness_mm, unit |-> "mm"]]

\* The arguments of edb.stackup.add_layer for one record.
LayerArgs(layer) ==
    [name |-> layer.name, layer_type |-> layer.type, material |-> layer.material,
     thickness |-> [value |-> layer.thickness_mm, unit |-> "mm"]]

\* The loop's test and the material half of one turn.
build_stackup ==
    /\ pc = "build_stackup"
    /\ IF layer_i = Len(stack)
       THEN /\ pc' = StageAfter("build_stackup")
            /\ UNCHANGED <<err, material_keys, calls>>
       ELSE LET layer == stack[layer_i + 1]
                mat == layer.material
            IN  IF ~NeedsMaterial(mat, material_keys)
                THEN /\ pc' = "add_layer"
                     /\ UNCHANGED <<err, material_keys, calls>>
                ELSE IF FirstBad(layer) # 0
                THEN /\ RaiseInScope(FloatError(Properties(layer)[FirstBad(layer)]))
                     /\ UNCHANGED <<material_keys, calls>>
                ELSE \/ /\ calls' = Append(calls, Call("add_material", TRUE, mat, layer_i + 1))
                        /\ material_keys' = material_keys \cup {mat}
                        /\ pc' = "add_layer"
                        /\ err' = err
                     \/ /\ calls' = Append(calls, Call("add_material", FALSE, mat, layer_i + 1))
                        /\ RaiseInScope("LibError")
                        /\ UNCHANGED material_keys
    /\ UNCHANGED <<inputs, parser, layer_i, opened, closed, initial_keys, layers,
                   traces, points>>

\* The layer half with a rejection caught and the loop carried on.
add_layer_swallowing ==
    /\ pc = "add_layer"
    /\ LET layer == stack[layer_i + 1]
       IN  \/ /\ calls' = Append(calls, Call("add_layer", TRUE, layer.material, layer_i + 1))
              /\ layers' = Append(layers, LayerArgs(layer))
           \/ /\ calls' = Append(calls, Call("add_layer", FALSE, layer.material, layer_i + 1))
              /\ UNCHANGED layers
    /\ layer_i' = layer_i + 1
    /\ pc' = "build_stackup"
    /\ UNCHANGED <<inputs, err, parser, opened, closed, initial_keys, material_keys,
                   traces, points>>

\* The layer half of one turn.
add_layer ==
    /\ pc = "add_layer"
    /\ LET layer == stack[layer_i + 1]
       IN  IF ~Edb
           THEN /\ pc' = "build_stackup"
                /\ layer_i' = layer_i + 1
                /\ UNCHANGED <<err, layers, calls>>
           ELSE \/ /\ calls' = Append(calls, Call("add_layer", TRUE, layer.material, layer_i + 1))
                   /\ layers' = Append(layers, LayerArgs(layer))
                   /\ layer_i' = layer_i + 1
                   /\ pc' = "build_stackup"
                   /\ err' = err
                \/ /\ calls' = Append(calls, Call("add_layer", FALSE, layer.material, layer_i + 1))
                   /\ RaiseInScope("LibError")
                   /\ UNCHANGED <<layer_i, layers>>
    /\ UNCHANGED <<inputs, parser, opened, closed, initial_keys, material_keys,
                   traces, points>>

\* -------------------------------------------- add_differential_pair
Point(x, y) == [x |-> x, y |-> y]

\* One turn whose last point does not come back down.
MeanderNoReturn(x, y, h) ==
    <<Point(x + h, y), Point(x + h, y + h), Point(x + 2 * h, y + h),
      Point(x + 2 * h, y + h)>>

\* The four points one turn of create_trace's loop appends after (x, y).
Meander(x, y, h) ==
    <<Point(x + h, y), Point(x + h, y + h), Point(x + 2 * h, y + h), Point(x + 2 * h, y)>>

RECURSIVE TraceLoop(_, _, _, _, _)
TraceLoop(pts, x, y, h, n) ==
    IF n <= 0 THEN pts
    ELSE TraceLoop(pts \o Meander(x, y, h), x + 2 * h, y, h, n - 1)

\* create_trace(offset), coordinates in half grid steps.
create_trace(offset) ==
    TraceLoop(<<Point(0, 0 + offset)>>, 0, 0 + offset,
              2 * args.intra_height, args.intra_count)

\* (w + gap) / 2.0 and -(w + gap) / 2.0, in half grid steps.
PosOffset == args.width + args.gap

\* The negative offset with the gap left out.
NegOffsetNoGap == 0 - args.width

NegOffset == 0 - (args.width + args.gap)

Trace(pts, w, net) == [points |-> pts, layer |-> "L03_SIG1", width |-> w, net |-> net]

\* Both point lists are built, then the positive trace is requested.
add_differential_pair ==
    /\ pc = "add_differential_pair"
    /\ IF ~Edb
       THEN /\ pc' = StageAfter("add_differential_pair")
            /\ UNCHANGED <<err, points, traces, calls>>
       ELSE /\ pos_pts' = create_trace(PosOffset)
            /\ neg_pts' = create_trace(NegOffset)
            /\ \/ /\ calls' = Append(calls, Call("create_trace", TRUE, "", 0))
                  /\ traces' = Append(traces, Trace(pos_pts', args.width, "diff_p"))
                  /\ pc' = "create_trace_n"
                  /\ err' = err
               \/ /\ calls' = Append(calls, Call("create_trace", FALSE, "", 0))
                  /\ RaiseInScope("LibError")
                  /\ UNCHANGED traces
    /\ UNCHANGED <<inputs, parser, layer_i, opened, closed, initial_keys,
                   material_keys, layers>>

\* The negative trace is requested.
create_trace_n ==
    /\ pc = "create_trace_n"
    /\ \/ /\ calls' = Append(calls, Call("create_trace", TRUE, "", 0))
          /\ traces' = Append(traces, Trace(neg_pts, args.width, "diff_n"))
          /\ pc' = StageAfter("add_differential_pair")
          /\ err' = err
       \/ /\ calls' = Append(calls, Call("create_trace", FALSE, "", 0))
          /\ RaiseInScope("LibError")
          /\ UNCHANGED traces
    /\ UNCHANGED <<inputs, parser, layer_i, opened, closed, initial_keys,
                   material_keys, layers, points>>

\* ------------------------------------------------------ specifications
Next ==
    \/ open_csv
    \/ parse_row
    \/ parse_return
    \/ check_Edb
    \/ open_Edb
    \/ build_stackup
    \/ add_layer
    \/ add_differential_pair
    \/ create_trace_n
    \/ edb_save
    \/ edb_exit

Spec == Init /\ [][Next]_vars

\* add_differential_pair alone, on an open handle, over every small geometry.
InitTrace ==
    /\ csv_ok = TRUE /\ rows = <<>>
    /\ Edb = TRUE
    /\ args \in TraceArgs
    /\ pc = "add_differential_pair"
    /\ err = "none"
    /\ row_i = 0 /\ stack = <<>> /\ layer_i = 0
    /\ opened = 1 /\ closed = 0
    /\ initial_keys = {} /\ material_keys = {}
    /\ layers = <<>> /\ traces = <<>>
    /\ pos_pts = <<>> /\ neg_pts = <<>>
    /\ calls = <<>>

NextTrace == add_differential_pair \/ create_trace_n

SpecTrace == InitTrace /\ [][NextTrace]_vars

\* ------------------------------------------------------------ properties
Terminal == pc \in {"done", "failed"}

\* Positions of the calls of the given operations in the log.
CallsOf(ops) == {i \in DOMAIN calls : calls[i].op \in ops}

BuilderOps == {"add_material", "add_layer"}

\* A layer name that is present and non-empty.
HasName(row) == row.name # None /\ row.name # <<>>

\* The rows among the first n that have a layer name, in order.
RECURSIVE Named(_, _)
Named(rs, n) ==
    IF n = 0 THEN <<>>
    ELSE IF HasName(rs[n]) THEN Append(Named(rs, n - 1), rs[n]) ELSE Named(rs, n - 1)

\* parse_stackup returned.
Parsed == csv_ok /\ row_i = Len(rows) /\ pc \notin {"main", "parse_stackup"}

\* parse_stackup raised.
ParseFailed == pc = "failed" /\ (~csv_ok \/ row_i < Len(rows))

\* build_stackup returned.
Built == opened = 1 /\ layer_i = Len(stack) /\ pc \notin {"build_stackup", "add_layer"}

\* C1: once the database has been opened it is closed on every exit path: in
\* every terminal state of a run that opened it the handle's scope exit has
\* run exactly once, after a successful save as well as after a failure of
\* build_stackup, add_differential_pair or save; it never runs twice, never
\* without an open, and never before the body has ended.
C1_ClosedOnEveryExit ==
    /\ closed <= opened
    /\ opened <= 1
    /\ (Terminal /\ opened = 1) => closed = 1
    /\ closed = 1 => Terminal
    /\ Cardinality(CallsOf({"close"})) = closed

\* A run in which add_layer raised after one layer was appended has ended,
\* failed, with the handle closed.
C1_Witness ==
    /\ pc = "failed" /\ err = "LibError"
    /\ opened = 1 /\ closed = 1
    /\ Len(layers) = 1
    /\ \E i \in CallsOf({"add_layer"}) : ~calls[i].ok

\* C2: the stages run in the order build_stackup, add_differential_pair,
\* save: every add_material/add_layer call precedes every create_trace call,
\* every create_trace call precedes the save request, save is requested at
\* most once, and only after every record got its layer and both traces were
\* created with no call having raised.
C2_StageOrder ==
    /\ \A i \in CallsOf(BuilderOps) : \A j \in CallsOf({"create_trace", "save"}) : i < j
    /\ \A i \in CallsOf({"create_trace"}) : \A j \in CallsOf({"save"}) : i < j
    /\ Cardinality(CallsOf({"save"})) <= 1
    /\ \A j \in CallsOf({"save"}) :
          /\ \A i \in 1..(j - 1) : calls[i].ok
          /\ Cardinality({i \in CallsOf({"add_layer"}) : i < j}) = Len(stack)
          /\ Cardinality({i \in CallsOf({"create_trace"}) : i < j}) = 2
          /\ Len(layers) = Len(stack) /\ Len(traces) = 2

\* A successful run that built two layers, two traces and saved.
C2_Witness ==
    /\ pc = "done"
    /\ Len(layers) = 2 /\ Len(traces) = 2
    /\ CallsOf({"save"}) # {}

\* C3: a rejected add_material or add_layer call is the last call made on the
\* handle apart from the scope's close: nothing is retried, no later
\* material, layer, trace or save call follows, the library's error
\* propagates unchanged, and the run ends failed.
C3_RejectionIsFatal ==
    \A i \in CallsOf(BuilderOps) :
        ~calls[i].ok =>
            /\ \A j \in DOMAIN calls : j > i => calls[j].op = "close"
            /\ Cardinality({j \in DOMAIN calls : j > i}) <= 1
            /\ pc \in {"exit", "failed"}
            /\ err = "LibError"

\* add_material was rejected for the second record; the run has ended, failed.
C3_Witness ==
    /\ pc = "failed"
    /\ \E i \in CallsOf({"add_material"}) : ~calls[i].ok /\ calls[i].rec = 2
    /\ calls[Len(calls)].op = "close"

\* The numeric cells of a row other than the thickness.
PropertyCells(row) ==
    {row.permittivity, row.permeability, row.conductivity,
     row.dielectric_loss, row.magnetic_loss}

\* A named row with a thickness float() rejects.
BadThickness(row) == HasName(row) /\ ~FloatOK(row.thickness)

\* A named row with some numeric cell, thickness or property, float() rejects.
BadNumber(row) ==
    HasName(row) /\ (~FloatOK(row.thickness) \/ \E c \in PropertyCells(row) : ~FloatOK(c))

\* The run never gets past parse_stackup: nothing is opened, nothing is
\* called, and once it has ended it has failed on the row being read.
StoppedInParse ==
    /\ opened = 0 /\ calls = <<>>
    /\ pc \in {"main", "parse_stackup", "failed"}
    /\ Terminal => /\ pc = "failed"
                   /\ err \in {"ValueError", "TypeError"}
                   /\ row_i < Len(rows)

\* C4, as claimed: a retained row with any numeric cell (thickness or one of
\* the five material properties) that float() rejects makes the run fail
\* before the database is opened and before any material, layer or trace call
\* is made.
C4_AsClaimed ==
    (\E i \in DOMAIN rows : BadNumber(rows[i])) =>
        /\ opened = 0 /\ calls = <<>>
        /\ Terminal => pc = "failed"

\* C4, as amended: a retained row whose Thickness (um) float() rejects makes
\* the run fail in parse_stackup, on that row, before the database is opened
\* and before any call.  The five material properties are converted by
\* build_stackup only: a conversion error after the open comes from the record
\* build_stackup is at, whose material is not registered, no add_material
\* call is made for that record, and the handle is still closed.
C4_ThicknessFailsInParse ==
    /\ (\E i \in DOMAIN rows : BadThickness(rows[i])) =>
          /\ StoppedInParse
          /\ Terminal => BadThickness(rows[row_i + 1])
    /\ (opened = 1 /\ err \in {"ValueError", "TypeError"}) =>
          /\ pc \in {"exit", "failed"}
          /\ layer_i < Len(stack)
          /\ \E c \in PropertyCells(stack[layer_i + 1]) : ~FloatOK(c)
          /\ stack[layer_i + 1].material \notin material_keys
          /\ \A i \in CallsOf({"add_material"}) : calls[i].rec # layer_i + 1
          /\ Terminal => closed = 1

\* parse_stackup raised on the second row, a named row whose thickness is no
\* number, after retaining the first.
C4_Witness ==
    /\ pc = "failed" /\ err = "ValueError"
    /\ row_i = 1 /\ Len(stack) = 1
    /\ BadThickness(rows[2])
    /\ opened = 0

\* The add_material calls in the log, in order.
MaterialCalls == SelectSeq(calls, LAMBDA c : c.op = "add_material")

\* Records whose material test build_stackup has passed.
Registered == 1..(IF pc = "add_layer" THEN layer_i + 1 ELSE layer_i)

\* C5: add_material is issued at most once per name and never for a name the
\* registry held when the database was opened; each call is issued while the
\* first record with that material is processed; and every record processed
\* so far whose material was absent from the initial registry has had its
\* call.  Records sharing a material therefore cause one call.
C5_MaterialAddedOnce ==
    /\ \A i \in DOMAIN MaterialCalls :
          /\ MaterialCalls[i].mat \notin initial_keys
          /\ \A j \in DOMAIN MaterialCalls : i # j => MaterialCalls[i].mat # MaterialCalls[j].mat
          /\ LET r == MaterialCalls[i].rec
             IN  /\ r \in DOMAIN stack
                 /\ stack[r].material = MaterialCalls[i].mat
                 /\ \A q \in 1..(r - 1) : stack[q].material # MaterialCalls[i].mat
    /\ \A r \in Registered :
          stack[r].material \notin initial_keys =>
              \E i \in DOMAIN MaterialCalls : MaterialCalls[i].mat = stack[r].material

\* A finished run over three records, the first and third sharing a material
\* the registry did not hold, with two add_material calls in all.
C5_Witness ==
    /\ pc = "done"
    /\ Len(stack) = 3
    /\ stack[1].material = stack[3].material
    /\ stack[2].material # stack[1].material
    /\ initial_keys = {}
    /\ Len(MaterialCalls) = 2

\* C6: the appended layers are the processed records, in order: the i-th
\* layer has the name, type, material and thickness (in mm) of the i-th
\* record, which is the i-th named CSV row; its material is in the registry;
\* it was appended by the i-th add_layer call; and once build_stackup has
\* returned there is one layer per record.
C6_LayersFollowRecords ==
    /\ Len(layers) = layer_i
    /\ Len(layers) <= Len(stack)
    /\ \A i \in DOMAIN layers :
          /\ layers[i].name = stack[i].name
          /\ layers[i].layer_type = stack[i].type
          /\ layers[i].material = stack[i].material
          /\ layers[i].thickness = [value |-> stack[i].thickness_mm, unit |-> "mm"]
          /\ layers[i].name = Named(rows, Len(rows))[i].name
          /\ layers[i].material \in material_keys
    /\ LET added == SelectSeq(calls, LAMBDA c : c.op = "add_layer" /\ c.ok)
       IN  /\ Len(added) = Len(layers)
           /\ \A i \in DOMAIN added : added[i].rec = i
    /\ Built => Len(layers) = Len(stack)

\* build_stackup has returned after appending two layers from a CSV that
\* also held a row without a name.
C6_Witness ==
    /\ Built
    /\ Len(layers) = 2
    /\ Len(rows) = 3
    /\ layers[1].thickness.value # layers[2].thickness.value

\* C7: the records parse_stackup holds are the named rows among those read,
\* in order, each unchanged but for the added thickness_mm; a row it raises on
\* is a named row, so a skipped row contributes no record and no error; and
\* once it has returned there is one record per named row of the CSV.
C7_ParseKeepsNamedRows ==
    /\ Len(stack) = Len(Named(rows, row_i))
    /\ \A i \in DOMAIN stack :
          [f \in DOMAIN Named(rows, row_i)[i] |-> stack[i][f]] = Named(rows, row_i)[i]
    /\ (ParseFailed /\ csv_ok) => HasName(rows[row_i + 1])
    /\ Parsed => Len(stack) = Cardinality({i \in DOMAIN rows : HasName(rows[i])})

\* parse_stackup has returned two records from three rows, having skipped a
\* row with an empty name whose thickness is no number.
C7_Witness ==
    /\ pc = "check_Edb"
    /\ Len(rows) = 3 /\ Len(stack) = 2
    /\ rows[2].name = <<>> /\ ~FloatOK(rows[2].thickness)

\* C10: the database is opened, and the handle called, only after
\* parse_stackup has returned and with the library present.  With the library
\* missing, a run that parsed its CSV ends with main's RuntimeError; a run
\* whose parsing failed ends with the parsing error; in both nothing was
\* opened and no call was made.
C10_OpenAfterParseAndImport ==
    /\ (opened > 0 \/ calls # <<>>) => (Edb /\ Parsed)
    /\ (Terminal /\ ~Edb /\ Parsed) => (pc = "failed" /\ err = "RuntimeError")
    /\ (Terminal /\ ~Parsed) =>
          /\ pc = "failed"
          /\ err \in {"FileNotFoundError", "ValueError", "TypeError"}
    /\ (Terminal /\ (~Edb \/ ~Parsed)) => (opened = 0 /\ calls = <<>>)

\* The library is missing; main raised after parsing two records.
C10_Witness ==
    /\ pc = "failed" /\ err = "RuntimeError"
    /\ ~Edb
    /\ Len(stack) = 2
    /\ opened = 0

\* add_differential_pair has built both point lists.
Generated == pc # "add_differential_pair"

\* (w + gap) / 2 in half grid steps.
HalfPitch == args.width + args.gap

\* The two lists have equal x-coordinates and start at (0, +(w+g)/2) and
\* (0, -(w+g)/2).
SameAbscissae ==
    /\ Len(neg_pts) = Len(pos_pts)
    /\ \A i \in DOMAIN pos_pts : neg_pts[i].x = pos_pts[i].x
    /\ pos_pts[1] = [x |-> 0, y |-> HalfPitch]
    /\ neg_pts[1] = [x |-> 0, y |-> 0 - HalfPitch]

\* C8, as claimed: the two point lists have equal x-coordinates and are
\* mirror images about y = 0: at every index the negative trace's y is the
\* negation of the positive trace's y.
C8_AsClaimed ==
    Generated =>
        /\ SameAbscissae
        /\ \A i \in DOMAIN pos_pts : neg_pts[i].y = 0 - pos_pts[i].y

\* C8, as amended: the two point lists have equal x-coordinates and start at
\* (0, +(w+g)/2) and (0, -(w+g)/2), and the negative list is the positive
\* list moved down by w+g: both meander upwards by intra_height.  The
\* negative y is the negation of the positive y only at the points on the
\* base line (the first point and the first and last point of every turn),
\* unless intra_height is 0.
C8_NegativeIsPositiveShifted ==
    Generated =>
        /\ SameAbscissae
        /\ \A i \in DOMAIN pos_pts :
              /\ neg_pts[i].y = pos_pts[i].y - 2 * HalfPitch
              /\ (neg_pts[i].y = 0 - pos_pts[i].y)
                    <=> (i % 4 \in {1, 2} \/ args.intra_height = 0)

\* Both traces of a two-turn meander of non-zero height and non-zero pitch
\* have been created.
C8_Witness ==
    /\ Len(traces) = 2
    /\ args.intra_count = 2 /\ args.intra_height = 1
    /\ args.width = 1 /\ args.gap = 1
    /\ traces[1].points = pos_pts /\ traces[2].points = neg_pts

\* A point list that starts at (0, offset), gains four points per turn by
\* x += h, y += h, x += h, y -= h, and has 4n+1 points, the last (2nh, offset).
IsMeander(pts, offset, h, n) ==
    /\ Len(pts) = 4 * n + 1
    /\ pts[1] = [x |-> 0, y |-> offset]
    /\ \A k \in 0..(n - 1) :
          LET p == pts[4 * k + 1]
          IN  /\ pts[4 * k + 2] = [x |-> p.x + h, y |-> p.y]
              /\ pts[4 * k + 3] = [x |-> p.x + h, y |-> p.y + h]
              /\ pts[4 * k + 4] = [x |-> p.x + 2 * h, y |-> p.y + h]
              /\ pts[4 * k + 5] = [x |-> p.x + 2 * h, y |-> p.y]
    /\ pts[Len(pts)] = [x |-> 2 * n * h, y |-> offset]

\* C9: for intra_count = n >= 0 each generated point list has 4n+1 points,
\* starts at (0, offset), gains per turn the four points of x += h, y += h,
\* x += h, y -= h, and ends at (2nh, offset); for n = 0 it is the single
\* point (0, offset).
C9_MeanderShape ==
    (Generated /\ args.intra_count >= 0) =>
        /\ IsMeander(pos_pts, HalfPitch, 2 * args.intra_height, args.intra_count)
        /\ IsMeander(neg_pts, 0 - HalfPitch, 2 * args.intra_height, args.intra_count)
        /\ args.intra_count = 0 => pos_pts = <<[x |-> 0, y |-> HalfPitch]>>

\* A two-turn meander of negative height has been generated: nine points.
C9_Witness ==
    /\ Generated
    /\ args.intra_count = 2 /\ args.intra_height = 0 - 1
    /\ Len(pos_pts) = 9 /\ Len(neg_pts) = 9
=============================================================================
